---- MODULE Spec2Model ----
(***************************************************************************)
(* SoraCleaner: the App component (src/types.ts, lines 213-480), the       *)
(* VideoUploader component (src/types.ts, lines 37-211) and the gemini     *)
(* service (src/unnamed/part_000).                                         *)
(*                                                                         *)
(* The React state of App (videoData, processingState, resultVideoUrl) is  *)
(* shared by every invocation of startProcessing.  An invocation ("run")   *)
(* is an async function: it executes synchronously up to an await and is   *)
(* resumed by the completion of the awaited promise.  One action of the    *)
(* model is one such synchronous segment, or one user event.               *)
(***************************************************************************)
EXTENDS Integers, Sequences, FiniteSets, TLC

\* ------------------------------------------------------------------ bounds
MaxRuns == 3      \* invocations of startProcessing in one behaviour
MaxVideos == 2    \* VideoRecords handed to handleVideoSelected
MaxPolls == 2     \* status checks of one generateCleanVideo call
FairRuns == 2     \* invocations in one behaviour of FairSpec

Runs == 1..MaxRuns
VideoIds == 1..MaxVideos

\* ------------------------------------------------------------ text values
\* A text is a sequence of fragments, so that String.includes and the
\* emptiness test of || can be computed.  <<>> is the empty string.
Includes(text, needle) == \E i \in 1..Len(text) : text[i] = needle
Truthy(text) == Len(text) > 0
OrElse(text, fallback) == IF Truthy(text) THEN text ELSE fallback

NoText == <<>>
NullUrl == <<>>

EntityNotFound == "Requested entity was not found"
MsgNetwork == <<"Failed to fetch">>
MsgNotFound == <<"404 ", "Requested entity was not found", ".">>
MsgEmpty == <<>>
RemoteErrors == {MsgNetwork, MsgNotFound, MsgEmpty}

MsgKeyExpired == <<"API Key session expired. Please try again.">>
MsgNoFrame == <<"Could not capture video frame">>
MsgUnknown == <<"Unknown error occurred">>
MsgGenFailed == <<"Video generation failed">>
MsgNoUri == <<"No video URI returned">>
MsgTypeError == <<"Cannot read properties of undefined (reading 'image')">>

\* the texts handed to window.alert
LinkWarning == <<"For this demo, please use a direct link to a video file (.mp4) or upload a file. Standard website URLs cannot be processed client-side.">>
KeyWarning == <<"API Key environment missing.">>

\* analyzeVideoContent returning response.text as it is
DefaultAnalysis_NoFallback == NoText
DefaultAnalysis == <<"A cinematic video scene.">>
DefaultFramePrompt == <<"A clean video frame">>
ImagenQualifier == " high quality, photorealistic, no text, no watermarks, clear 8k."
VeoQualifier == " cinematic, high quality, consistent motion."


\* ------------------------------------------------------------ VideoData
NullVideo == [kind |-> "null"]

\* the files a user can pick: base64 payload and File.type
Files == { [base64Data |-> <<"VIDEO">>, mimeType |-> <<"video/mp4">>],
           [base64Data |-> <<"VIDEO">>, mimeType |-> <<>>] }

\* the links a user can paste
Links == { <<"https://host/clip", ".mp4">>,
           <<"https://host/CLIP", ".MOV">>,
           <<"https://host/page">>,
           <<"https://host/clip", ".mp4", "?dl=1">> }

Lower(s) == CASE s = ".MP4" -> ".mp4"
              [] s = ".MOV" -> ".mov"
              [] s = ".WEBM" -> ".webm"
              [] OTHER -> s

\* the match without the i flag
LinkMatches_CaseSensitive(link) ==
    /\ Len(link) > 0
    /\ link[Len(link)] \in {".mp4", ".webm", ".mov"}
\* linkInput.match(/\.(mp4|webm|mov)$/i)
LinkMatches(link) ==
    /\ Len(link) > 0
    /\ Lower(link[Len(link)]) \in {".mp4", ".webm", ".mov"}

\* the record processFile hands to onVideoSelected
FileRecord(id, file) ==
    [kind |-> "video", id |-> id, file |-> TRUE, url |-> NullUrl,
     previewUrl |-> <<"blob:", "file">>,
     base64Data |-> file.base64Data, mimeType |-> file.mimeType]

\* the record handleLinkSubmit hands to onVideoSelected
LinkRecord(id, link) ==
    [kind |-> "video", id |-> id, file |-> FALSE, url |-> link,
     previewUrl |-> link]

\* what handleLinkSubmit does with linkInput: the alert it opens and the
\* record it hands to onVideoSelected (NullVideo: it does not call it)
LinkSubmit(linkInput, id) ==
    IF ~Truthy(linkInput) THEN [alert |-> NoText, data |-> NullVideo]
    ELSE IF LinkMatches(linkInput)
         THEN [alert |-> NoText, data |-> LinkRecord(id, linkInput)]
         ELSE [alert |-> LinkWarning, data |-> NullVideo]

\* --------------------------------------------------------- ProcessingState
IdleState == [status |-> "idle", message |-> "", progress |-> 0]
AnalyzingState ==
    [status |-> "analyzing", message |-> "Analyzing video structure...",
     progress |-> 10]
\* a checkpoint below the one before it
CleaningState_Low ==
    [status |-> "cleaning_frame",
     message |-> "Reconstructing clean keyframes...", progress |-> 4]
CleaningState ==
    [status |-> "cleaning_frame",
     message |-> "Reconstructing clean keyframes...", progress |-> 40]
GeneratingState ==
    [status |-> "generating",
     message |-> "Generating logo-free video with Veo...", progress |-> 60]
CompletedState ==
    [status |-> "completed", message |-> "Restoration complete!",
     progress |-> 100]
\* the catch block showing a fixed text
ErrorState_Generic(msg) ==
    [status |-> "error", message |-> "Processing failed", error |-> MsgUnknown]
ErrorState(msg) ==
    [status |-> "error", message |-> "Processing failed",
     error |-> OrElse(msg, MsgUnknown)]

\* a callback that builds the record anew instead of spreading prev
WithMessage_Fresh(prev, msg) ==
    [status |-> prev.status, message |-> msg, progress |-> 0]
\* (msg) => setProcessingState(prev => ({ ...prev, message: msg }))
WithMessage(prev, msg) == [prev EXCEPT !.message = msg]

\* progress is missing from the record the catch block sets; -1 stands for
\* JavaScript's undefined in the observation log only
Progress(ps) == IF "progress" \in DOMAIN ps THEN ps.progress ELSE -1

\* ------------------------------------------------------------------ state
VARIABLES
    videoData,        \* useState<VideoData | null>
    processingState,  \* useState<ProcessingState>
    resultVideoUrl,   \* useState<string | null>; NullUrl is null
    elLoaded,         \* per VideoRecord: its <video> element has readyState >= 2
    elHandler,        \* per VideoRecord: the run whose resolve is onloadeddata (0: none)
    nextVideo,        \* VideoRecords created so far + 1
    aistudio,         \* window.aistudio is present
    envKey,           \* process.env.API_KEY (<<>> when missing)
    keySelected,      \* what aistudio.hasSelectedApiKey() answers
    nextRun,          \* invocations of startProcessing so far + 1
    runs,             \* per invocation: its position, locals and history
    alerted           \* the text the last event handler passed to alert (<<>>: none)

vars == <<videoData, processingState, resultVideoUrl, elLoaded, elHandler,
          nextVideo, aistudio, envKey, keySelected, nextRun, runs, alerted>>

\* LRO handle returned by generateVideos / getVideosOperation
OpPending == [done |-> FALSE, hasError |-> FALSE, error |-> NoText, uri |-> NoText]
OpDoneUri == [done |-> TRUE, hasError |-> FALSE, error |-> NoText, uri |-> <<"https://gen/video?alt=media">>]
OpDoneNoUri == [done |-> TRUE, hasError |-> FALSE, error |-> NoText, uri |-> NoText]
OpDoneError(msg) == [done |-> TRUE, hasError |-> TRUE, error |-> msg, uri |-> NoText]
Handles == {OpPending, OpDoneUri, OpDoneNoUri} \cup {OpDoneError(m) : m \in RemoteErrors}

\* what captureFirstFrame returns: null, or the text after the comma of the
\* data URL (empty for a canvas without pixels)
NullFrame == [isNull |-> TRUE, data |-> NoText]
Frame(data) == [isNull |-> FALSE, data |-> data]
Falsy(frame) == frame.isNull \/ ~Truthy(frame.data)

NoRequest == [data |-> NoText, mimeType |-> NoText]
NoVeoRequest == [image |-> NoText, prompt |-> NoText]

\* a run that has not been started
\* pc: the await the run is suspended at; stage: the service function whose
\* getAiClient call is in progress; vid: the id of the VideoRecord the
\* invocation's closure holds, videoData: that record while the code still
\* reads it; the locals of startProcessing and generateCleanVideo, each held
\* until its last use; the requests in flight; log: the calls issued so far;
\* seen: the states the run's own updates produced, kept while nothing else
\* touched the shared state (disturbed); outcome: how the invocation ended;
\* failure: what made it throw ("capture", "reject": a remote call rejected,
\* "noimage", "operror": the finished handle carries an error, "nouri");
\* rejected: the message of that remote error; thrown: the message of the
\* error that reached the catch block of startProcessing
FreshRun ==
    [pc |-> "unstarted", stage |-> "", vid |-> 0, videoData |-> NullVideo,
     firstFrameBase64 |-> NullFrame, analysisPrompt |-> NoText,
     cleanedFrameBase64 |-> NoText, operation |-> OpPending,
     analyzeReq |-> NoRequest, imagenReq |-> NoText, veoReq |-> NoVeoRequest,
     log |-> <<>>, seen |-> <<>>, disturbed |-> FALSE,
     outcome |-> "", failure |-> "", rejected |-> NoText, thrown |-> NoText]

InFlight(rn) == rn.pc \notin {"unstarted", "done", "retired"}

\* A finished run keeps its locals and its history in the state it finishes
\* in; the next event of the program drops them.
Retired == [FreshRun EXCEPT !.pc = "retired"]

Count(log, ev) == Cardinality({i \in 1..Len(log) : log[i] = ev})

\* ------------------------------------------------ segments of startProcessing
\* A segment works on S = [run, ps, res]: the run's record, processingState
\* and resultVideoUrl as the synchronous code leaves them.

Seg(rn, ps, res) == [run |-> rn, ps |-> ps, res |-> res]

Observed(ps, res) ==
    [status |-> ps.status, progress |-> Progress(ps), result |-> res # NullUrl]

\* the run's own record of the states its updates produced
Saw(rn, ps, res) ==
    IF rn.disturbed THEN rn
    ELSE [rn EXCEPT !.seen = Append(@, Observed(ps, res))]

Logged(S, ev) == [S EXCEPT !.run.log = Append(@, ev)]

StatusEvent ==
    [idle |-> "set:idle", analyzing |-> "set:analyzing",
     cleaning_frame |-> "set:cleaning_frame", generating |-> "set:generating",
     completed |-> "set:completed", error |-> "set:error"]

\* setProcessingState(ps) with a status record
SetState(S, ps) ==
    Logged([S EXCEPT !.run = Saw(@, ps, S.res), !.ps = ps], StatusEvent[ps.status])

\* a callback that sets the generating checkpoint again with the new message
OnProgress_Generating(S, msg) ==
    LET ps == [GeneratingState EXCEPT !.message = msg]
    IN  Logged([S EXCEPT !.run = Saw(@, ps, S.res), !.ps = ps], "onProgress")
\* onProgress(msg), i.e. setProcessingState(prev => ({...prev, message: msg}))
OnProgress(S, msg) ==
    LET ps == WithMessage(S.ps, msg)
    IN  Logged([S EXCEPT !.run = Saw(@, ps, S.res), !.ps = ps], "onProgress")

\* a throw statement, or a rejected await, of the given kind
Failed(S, kind, msg) ==
    IF S.run.failure = ""
    THEN [S EXCEPT !.run.failure = kind, !.run.rejected = msg]
    ELSE S

\* a remote call rejects with msg
Rejected(S, msg) == Logged(Failed(S, "reject", msg), "reject")

\* catch (error) of startProcessing
Catch(S, msg) ==
    SetState([S EXCEPT !.run.pc = "done", !.run.outcome = "error",
                       !.run.thrown = msg],
             ErrorState(msg))

\* the catch block comparing the whole message
IsKeyError_Exact(msg) == msg = <<EntityNotFound>> /\ aistudio
\* does the catch block of generateCleanVideo take the credential path
IsKeyError(msg) == Includes(msg, EntityNotFound) /\ aistudio

\* catch (error) of generateCleanVideo
VeoCatch(S, msg) ==
    IF IsKeyError(msg)
    THEN Logged([S EXCEPT !.run.pc = "gv_reselect"], "openSelectKey:catch")
    ELSE Catch(S, msg)

\* the remote call each service function issues once it holds a client
IssueCall(S, stage) ==
    CASE stage = "an" -> Logged([S EXCEPT !.run.pc = "an_call"], "describe")
      [] stage = "cf" -> Logged([S EXCEPT !.run.pc = "cf_edit"], "editImage")
      [] stage = "gv" ->
           Logged([OnProgress(S, "Initializing generation model...")
                      EXCEPT !.run.pc = "gv_start",
                             !.run.veoReq =
                                 [image |-> S.run.cleanedFrameBase64,
                                  prompt |-> Append(S.run.analysisPrompt, VeoQualifier)]],
                  "generateVideos")

\* getAiClient, up to the await of openSelectKey; hasSelectedApiKey is a
\* query the host answers from its state at the call
getAiClient(S, stage) ==
    IF aistudio /\ ~keySelected
    THEN Logged([S EXCEPT !.run.pc = "selKey", !.run.stage = stage], "openSelectKey")
    ELSE IssueCall(S, stage)

\* process.env.API_KEY inside a template string
KeyText == IF Truthy(envKey) THEN envKey ELSE <<"undefined">>

\* generateCleanVideo returning null, as its type allows
ResultUrl_Null(uri) == NullUrl
\* `${videoUri}&key=${process.env.API_KEY}`
ResultUrl(uri) == uri \o <<"&key=">> \o KeyText

\* the loop condition without its negation
LoopContinues_Inverted(operation) == operation.done
\* while (!operation.done)
LoopContinues(operation) == ~operation.done

\* the tail of startProcessing's try block: if (videoUrl) { ... }
Finish(S, videoUrl) ==
    IF Truthy(videoUrl)
    THEN SetState([S EXCEPT !.run.pc = "done", !.run.outcome = "completed",
                            !.res = videoUrl],
                  CompletedState)
    ELSE [S EXCEPT !.run.pc = "done", !.run.outcome = "silent"]

\* the code after the loop testing the URI before the error object
AfterLoop_UriFirst(S) ==
    LET operation == S.run.operation
        T == Logged(S, "afterLoop")
    IN
    IF ~Truthy(operation.uri)
    THEN VeoCatch(Failed(T, "nouri", NoText), MsgNoUri)
    ELSE Finish(T, ResultUrl(operation.uri))
\* generateCleanVideo after the loop: error object, missing URI, or the URL
AfterLoop(S) ==
    LET operation == S.run.operation
        T == Logged(S, "afterLoop")
    IN
    IF operation.hasError
    THEN VeoCatch(Failed(T, "operror", operation.error),
                  OrElse(operation.error, MsgGenFailed))
    ELSE IF ~Truthy(operation.uri)
         THEN VeoCatch(Failed(T, "nouri", NoText), MsgNoUri)
         ELSE Finish(T, ResultUrl(operation.uri))

\* a handle arrives from generateVideos or getVideosOperation
Fetched(S, handle) ==
    Logged([S EXCEPT !.run.operation = handle],
           IF handle.done THEN "handle:done" ELSE "handle:pending")

\* a loop that waits and checks without reporting
PollLoop_Silent(S) ==
    IF LoopContinues(S.run.operation)
    THEN Logged([S EXCEPT !.run.pc = "gv_sleep"], "setTimeout")
    ELSE AfterLoop(S)
\* the head of the polling loop, entered with a freshly fetched handle
PollLoop(S) ==
    IF LoopContinues(S.run.operation)
    THEN Logged([OnProgress(S, "Rendering video frames...")
                    EXCEPT !.run.pc = "gv_sleep"],
                "setTimeout")
    ELSE AfterLoop(S)

\* captureFirstFrame; the video element exists while a VideoRecord is loaded,
\* the canvas always does
\* loaded: readyState >= 2, per element, at the time of the call
\* surface: "noctx" when getContext fails, "nodims" when the media has no
\* decoded dimensions (videoWidth = videoHeight = 0)
Surfaces == {"ok", "noctx", "nodims"}

\* a capture that reads back pixels whatever the dimensions are
captureFirstFrame_Unchecked(surface, loaded) ==
    IF videoData = NullVideo THEN NullFrame
    ELSE IF surface = "noctx" THEN NullFrame
    ELSE Frame(<<"PNG", ToString(videoData.id)>>)
captureFirstFrame(surface, loaded) ==
    IF videoData = NullVideo THEN NullFrame
    ELSE IF surface = "noctx" THEN NullFrame
    ELSE IF ~loaded[videoData.id] \/ surface = "nodims" THEN Frame(NoText)
    ELSE Frame(<<"PNG", ToString(videoData.id)>>)

Base64Of(vd) == IF "base64Data" \in DOMAIN vd THEN vd.base64Data ELSE NoText
MimeOf(vd) == IF "mimeType" \in DOMAIN vd THEN vd.mimeType ELSE NoText

\* startProcessing from the capture to the call of analyzeVideoContent
AfterLoad(S, surface, loaded) ==
    LET firstFrameBase64 == captureFirstFrame(surface, loaded)
        T == [S EXCEPT !.run.firstFrameBase64 = firstFrameBase64,
                       !.run.videoData = NullVideo]
        dataToAnalyze == OrElse(Base64Of(S.run.videoData), firstFrameBase64.data)
        mimeToAnalyze == OrElse(MimeOf(S.run.videoData), <<"image/png">>)
    IN  IF Falsy(firstFrameBase64)
        THEN Catch(Failed(T, "capture", NoText), MsgNoFrame)
        ELSE getAiClient([T EXCEPT !.run.analyzeReq =
                              [data |-> dataToAnalyze, mimeType |-> mimeToAnalyze]],
                         "an")

\* the state every action of a run or of the user leaves behind: the actor's
\* segment result, and a mark on every other run in flight when the shared
\* state changed under it
CommitAlert(actor, S, vd, text) ==
    LET changed == \/ S.ps # processingState
                   \/ S.res # resultVideoUrl
                   \/ vd # videoData
    IN  /\ alerted' = text
        /\ processingState' = S.ps
        /\ resultVideoUrl' = S.res
        /\ videoData' = vd
        /\ runs' = [q \in Runs |->
                      IF q = actor THEN S.run
                      ELSE IF runs[q].pc = "done" THEN Retired
                      ELSE IF changed /\ InFlight(runs[q]) /\ ~runs[q].disturbed
                           THEN [runs[q] EXCEPT !.disturbed = TRUE, !.seen = <<>>]
                           ELSE runs[q]]

\* an event handler that opens no alert
Commit(actor, S, vd) == CommitAlert(actor, S, vd, NoText)

\* the segment a run starts from
Here(r) == Seg(runs[r], processingState, resultVideoUrl)

\* ------------------------------------------------------- remote responses
Reject(msg) == [ok |-> FALSE, error |-> msg, value |-> NoText]
Resolve(value) == [ok |-> TRUE, error |-> NoText, value |-> value]
Rejections == {Reject(m) : m \in RemoteErrors}

\* generateContent: response.text may be empty
AnalysisResponses == Rejections \cup {Resolve(<<>>), Resolve(<<"A dog runs on a beach.">>)}
FrameResponses == Rejections \cup {Resolve(<<>>), Resolve(<<"A dog on a beach.">>)}
\* the image-edit generateContent, whose response is not read
EditResponses == Rejections \cup {Resolve(<<>>)}
\* generateImages: value is imagenResponse.generatedImages, a list of imageBytes
ImagenResponses == Rejections \cup {Resolve(<<>>), Resolve(<<"CLEAN_PNG">>)}
\* generateVideos / getVideosOperation
HandleReject(msg) == [ok |-> FALSE, error |-> msg, handle |-> OpPending]
HandleResolve(h) == [ok |-> TRUE, error |-> NoText, handle |-> h]
HandleResponses == {HandleReject(m) : m \in RemoteErrors} \cup {HandleResolve(h) : h \in Handles}

\* --------------------------------------------------------------------- Init
Init ==
    /\ videoData = NullVideo
    /\ processingState = IdleState
    /\ resultVideoUrl = NullUrl
    /\ elLoaded = [v \in VideoIds |-> FALSE]
    /\ elHandler = [v \in VideoIds |-> 0]
    /\ nextVideo = 1
    /\ aistudio \in BOOLEAN
    /\ envKey \in {<<>>, <<"KEY">>}
    /\ keySelected = FALSE
    /\ nextRun = 1
    /\ runs = [r \in Runs |-> FreshRun]
    /\ alerted = NoText

Env == <<aistudio, envKey>>
User == Seg(FreshRun, processingState, resultVideoUrl)

\* ------------------------------------------------------------- user events
\* handleVideoSelected
handleVideoSelected(data) ==
    /\ Commit(0, [User EXCEPT !.ps = IdleState, !.res = NullUrl], data)
    /\ nextVideo' = nextVideo + 1
    /\ UNCHANGED <<elLoaded, elHandler, Env, keySelected, nextRun>>

\* processFile, from the file picker or a drop; the Uploader is rendered
\* while no VideoRecord is loaded
SelectFile ==
    /\ videoData = NullVideo
    /\ nextVideo <= MaxVideos
    /\ \E file \in Files :
          handleVideoSelected(FileRecord(nextVideo, file))

\* handleLinkSubmit
handleLinkSubmit ==
    /\ videoData = NullVideo
    /\ nextVideo <= MaxVideos
    /\ \E linkInput \in Links :
          LET out == LinkSubmit(linkInput, nextVideo) IN
          IF out.data # NullVideo
          THEN handleVideoSelected(out.data)
          ELSE /\ CommitAlert(0, User, videoData, out.alert)
               /\ UNCHANGED <<elLoaded, elHandler, nextVideo, Env, keySelected, nextRun>>

\* a Change Video that also resets the status and the result
ChangeVideo_Reset ==
    /\ videoData # NullVideo
    /\ Commit(0, [User EXCEPT !.ps = IdleState, !.res = NullUrl], NullVideo)
    /\ UNCHANGED <<elLoaded, elHandler, nextVideo, Env, keySelected, nextRun>>
\* Change Video: setVideoData(null)
ChangeVideo ==
    /\ videoData # NullVideo
    /\ Commit(0, User, NullVideo)
    /\ UNCHANGED <<elLoaded, elHandler, nextVideo, Env, keySelected, nextRun>>

\* Try Again, rendered in the error view
TryAgain ==
    /\ videoData # NullVideo
    /\ processingState.status = "error"
    /\ Commit(0, [User EXCEPT !.ps = IdleState], videoData)
    /\ UNCHANGED <<elLoaded, elHandler, nextVideo, Env, keySelected, nextRun>>

\* the Start Restoration button is rendered
StartRendered ==
    /\ videoData # NullVideo
    /\ processingState.status = "idle"
    /\ resultVideoUrl = NullUrl

\* if (!process.env.API_KEY && !window.aistudio)
NoKeySource == ~Truthy(envKey) /\ ~aistudio

\* the two early returns of startProcessing do not apply
StartAllowed ==
    /\ Truthy(videoData.previewUrl)
    /\ ~NoKeySource

\* Start Restoration: startProcessing up to its first await
startProcessing ==
    /\ StartRendered
    /\ nextRun <= MaxRuns
    /\ IF ~Truthy(videoData.previewUrl) THEN UNCHANGED vars
       ELSE IF ~StartAllowed
       THEN /\ CommitAlert(0, User, videoData, KeyWarning)
            /\ UNCHANGED <<elLoaded, elHandler, nextVideo, Env, keySelected, nextRun>>
       ELSE LET r == nextRun
                S == SetState(Seg([FreshRun EXCEPT
                                     !.vid = videoData.id,
                                     !.videoData = videoData,
                                     !.seen = <<Observed(processingState, resultVideoUrl)>>],
                                  processingState, resultVideoUrl),
                              AnalyzingState)
            IN  /\ nextRun' = nextRun + 1
                /\ IF ~elLoaded[videoData.id]
                   THEN /\ elHandler' = [elHandler EXCEPT ![videoData.id] = r]
                        /\ Commit(r, [S EXCEPT !.run.pc = "awaitLoad"], videoData)
                   ELSE /\ elHandler' = elHandler
                        /\ \E surface \in Surfaces :
                              Commit(r, AfterLoad(S, surface, elLoaded), videoData)
                /\ UNCHANGED <<elLoaded, nextVideo, Env, keySelected>>

\* the element of VideoRecord v is in the document (videoRef.current)
Mounted(v) == videoData # NullVideo /\ videoData.id = v

\* a run is suspended on the onloadeddata handler of element v
Awaited(v) == elHandler[v] # 0 /\ runs[elHandler[v]].pc = "awaitLoad"

\* the loadeddata event of the element created for VideoRecord v; it calls
\* the onloadeddata handler, which resumes the run that assigned it.  The
\* event fires once per element (its src never changes), also after the
\* element left the document; there it is modelled while a run awaits it.
\* The handler stays assigned in the DOM; it is dropped here because the
\* promise it resolves is settled.
LoadedData ==
    \E v \in VideoIds :
       /\ v < nextVideo
       /\ ~elLoaded[v]
       /\ ~(~Mounted(v) /\ ~Awaited(v))
       /\ elLoaded' = [elLoaded EXCEPT ![v] = TRUE]
       /\ elHandler' = [elHandler EXCEPT ![v] = 0]
       /\ IF Awaited(v)
          THEN \E surface \in Surfaces :
                  Commit(elHandler[v], AfterLoad(Here(elHandler[v]), surface, elLoaded'),
                         videoData)
          ELSE Commit(0, User, videoData)
       /\ UNCHANGED <<nextVideo, Env, keySelected, nextRun>>

\* ------------------------------------------------- completions of awaits
Frame1 == <<elLoaded, elHandler, nextVideo, Env, nextRun>>

\* await aistudio.openSelectKey() of getAiClient returns; the user picked a
\* key or closed the dialog
OpenSelectKeyReturns(r) ==
       /\ runs[r].pc = "selKey"
       /\ keySelected' = TRUE
       /\ Commit(r, IssueCall([Here(r) EXCEPT !.run.stage = ""], runs[r].stage),
                 videoData)
       /\ UNCHANGED Frame1

\* analyzeVideoContent: await ai.models.generateContent settles
AnalyzeReturns(r) ==
    \E resp \in AnalysisResponses :
       /\ runs[r].pc = "an_call"
       /\ Commit(r, IF ~resp.ok THEN Catch(Rejected(Here(r), resp.error), resp.error)
                    ELSE getAiClient(
                           SetState([Here(r) EXCEPT
                                        !.run.analysisPrompt =
                                            OrElse(resp.value, DefaultAnalysis),
                                        !.run.analyzeReq = NoRequest],
                                    CleaningState),
                           "cf"),
                 videoData)
       /\ UNCHANGED <<Frame1, keySelected>>

\* cleanFrame: the image-edit generateContent settles (its response is unused)
EditReturns(r) ==
    \E resp \in EditResponses :
       /\ runs[r].pc = "cf_edit"
       /\ Commit(r, IF ~resp.ok THEN Catch(Rejected(Here(r), resp.error), resp.error)
                    ELSE Logged([Here(r) EXCEPT !.run.pc = "cf_desc",
                                                !.run.firstFrameBase64 = NullFrame],
                                "describeFrame"),
                 videoData)
       /\ UNCHANGED <<Frame1, keySelected>>

\* cleanFrame: the description of the dirty frame settles
FrameDescReturns(r) ==
    \E resp \in FrameResponses :
       /\ runs[r].pc = "cf_desc"
       /\ Commit(r, IF ~resp.ok THEN Catch(Rejected(Here(r), resp.error), resp.error)
                    ELSE Logged([Here(r) EXCEPT
                                    !.run.pc = "cf_imagen",
                                    !.run.imagenReq =
                                        Append(OrElse(resp.value, DefaultFramePrompt),
                                               ImagenQualifier)],
                                "generateImages"),
                 videoData)
       /\ UNCHANGED <<Frame1, keySelected>>

\* cleanFrame: generateImages settles; generatedImages[0].image.imageBytes
ImagenReturns(r) ==
    \E resp \in ImagenResponses :
       /\ runs[r].pc = "cf_imagen"
       /\ Commit(r, IF ~resp.ok THEN Catch(Rejected(Here(r), resp.error), resp.error)
                    ELSE IF Len(resp.value) = 0
                         THEN Catch(Failed(Here(r), "noimage", NoText), MsgTypeError)
                    ELSE getAiClient(
                           SetState([Here(r) EXCEPT
                                        !.run.cleanedFrameBase64 = <<resp.value[1]>>,
                                        !.run.imagenReq = NoText],
                                    GeneratingState),
                           "gv"),
                 videoData)
       /\ UNCHANGED <<Frame1, keySelected>>

\* generateCleanVideo: await ai.models.generateVideos settles
GenerateVideosReturns(r) ==
    \E resp \in HandleResponses :
       /\ runs[r].pc = "gv_start"
       /\ Commit(r, IF ~resp.ok THEN VeoCatch(Rejected(Here(r), resp.error), resp.error)
                    ELSE PollLoop(
                           OnProgress(Fetched([Here(r) EXCEPT
                                                  !.run.analysisPrompt = NoText,
                                                  !.run.cleanedFrameBase64 = NoText,
                                                  !.run.veoReq = NoVeoRequest],
                                              resp.handle),
                                      "Video generation started. This may take a moment...")),
                 videoData)
       /\ UNCHANGED <<Frame1, keySelected>>

\* the 5000 ms timer of the loop fires; the status check is issued
TimeoutFires(r) ==
       /\ runs[r].pc = "gv_sleep"
       /\ Commit(r, Logged([Here(r) EXCEPT !.run.pc = "gv_poll"], "getVideosOperation"),
                 videoData)
       /\ UNCHANGED <<Frame1, keySelected>>

\* await ai.operations.getVideosOperation settles; the remote operation is
\* done by its MaxPolls-th status check at the latest
PollReturns(r) ==
    \E resp \in HandleResponses :
       /\ runs[r].pc = "gv_poll"
       /\ resp.ok /\ ~resp.handle.done
             => Count(runs[r].log, "getVideosOperation") < MaxPolls
       /\ Commit(r, IF ~resp.ok THEN VeoCatch(Rejected(Here(r), resp.error), resp.error)
                    ELSE PollLoop(Fetched(Here(r), resp.handle)),
                 videoData)
       /\ UNCHANGED <<Frame1, keySelected>>

\* await aistudio.openSelectKey() of the catch block returns; the block
\* throws the "session expired" error
ReselectReturns(r) ==
       /\ runs[r].pc = "gv_reselect"
       /\ keySelected' = TRUE
       /\ Commit(r, Catch(Here(r), MsgKeyExpired), videoData)
       /\ UNCHANGED Frame1

\* the completions a suspended run can receive
Resume(r) ==
    \/ OpenSelectKeyReturns(r)
    \/ AnalyzeReturns(r)
    \/ EditReturns(r)
    \/ FrameDescReturns(r)
    \/ ImagenReturns(r)
    \/ GenerateVideosReturns(r)
    \/ TimeoutFires(r)
    \/ PollReturns(r)
    \/ ReselectReturns(r)

Next ==
    \/ SelectFile
    \/ handleLinkSubmit
    \/ ChangeVideo
    \/ TryAgain
    \/ startProcessing
    \/ LoadedData
    \/ \E r \in Runs : Resume(r)

Spec == Init /\ [][Next]_vars

\* every await of a started run settles: remote calls return or reject, the
\* timer fires, the key dialog closes; stated for the runs FairNext can start
Fairness == \A r \in 1..FairRuns : WF_vars(Resume(r))

\* the behaviours with at most FairRuns invocations, under Fairness
FairNext == Next /\ nextRun' <= FairRuns + 1

FairSpec == Init /\ [][FairNext]_vars /\ Fairness

\* ------------------------------------------------------------ vocabulary
\* run r executed a segment in this step
Acted(r) == InFlight(runs[r]) /\ runs'[r].pc # runs[r].pc

\* run r was started for a VideoRecord that is no longer the loaded one,
\* and another one is loaded
Stale(r) == videoData # NullVideo /\ runs[r].vid # videoData.id

Has(log, ev) == \E i \in 1..Len(log) : log[i] = ev

Rank(status) ==
    CASE status = "idle" -> 0
      [] status = "analyzing" -> 1
      [] status = "cleaning_frame" -> 2
      [] status = "generating" -> 3
      [] status = "completed" -> 4
      [] status = "error" -> 5

\* what App renders in the result panel (lines 393-456)
ViewIdle == processingState.status = "idle" /\ resultVideoUrl = NullUrl
ViewProgress == processingState.status \notin {"idle", "completed", "error"}
ViewError == processingState.status = "error"
ViewResult == resultVideoUrl # NullUrl
Rendered ==
    {v \in {"idle", "progress", "error", "result"} :
        CASE v = "idle" -> ViewIdle
          [] v = "progress" -> ViewProgress
          [] v = "error" -> ViewError
          [] v = "result" -> ViewResult}

RunsInFlightFor(id) == {r \in Runs : InFlight(runs[r]) /\ runs[r].vid = id}

\* ------------------------------------------------------------------ C1
\* C1: at most one invocation of startProcessing that has not yet set
\* completed or error is in flight for the loaded VideoRecord.
C1_OneRunPerVideo ==
    videoData # NullVideo => Cardinality(RunsInFlightFor(videoData.id)) <= 1

\* ------------------------------------------------------------------ C7
\* C7: every change of the status moves forward in the order idle,
\* analyzing, cleaning_frame, generating, completed, error, or is a reset to
\* idle made by the user (Try Again, selecting a video).
C7_ForwardOrReset ==
    [][processingState'.status # processingState.status =>
          \/ Rank(processingState'.status) > Rank(processingState.status)
          \/ /\ processingState'.status = "idle"
             /\ \A r \in Runs : ~Acted(r)]_vars

\* ------------------------------------------------------------------ C8
\* C8: once another VideoRecord is loaded, the later segments of a run
\* started for the replaced one change neither the status nor the result URL.
C8_StaleRunUnobserved ==
    [][\A r \in Runs :
          Acted(r) /\ Stale(r) =>
             /\ processingState'.status = processingState.status
             /\ resultVideoUrl' = resultVideoUrl]_vars

\* ------------------------------------------------------------------ C9
\* C9: with a video loaded exactly one of the views is rendered: ready,
\* in progress, result video, failed.
C9_OneView == videoData # NullVideo => Cardinality(Rendered) = 1

\* witnesses of the four concurrency findings: two runs in flight at once,
\* one of them started for a replaced VideoRecord
C1_TwoRunsInFlight ==
    \E r, q \in Runs :
       /\ r # q
       /\ InFlight(runs[r]) /\ InFlight(runs[q])
       /\ Stale(r)

\* ------------------------------------------------------------------ C2
RemoteCalls ==
    {"describe", "editImage", "describeFrame", "generateImages",
     "generateVideos", "getVideosOperation"}

First(log, ev) == CHOOSE i \in 1..Len(log) : log[i] = ev /\ \A j \in 1..(i-1) : log[j] # ev

\* C2: a run sets "generating" only after its describe call gave it a
\* non-empty description and its clean-frame stage a payload, and these two
\* values are what it hands to generateCleanVideo (whose request carries the
\* frame and the description followed by the fixed qualifier).
C2_GeneratingNeedsInputs ==
    \A r \in Runs :
       LET run == runs[r] IN
       Has(run.log, "set:generating") =>
          /\ Has(run.log, "describe") /\ Has(run.log, "generateImages")
          /\ First(run.log, "describe") < First(run.log, "generateImages")
          /\ First(run.log, "generateImages") < First(run.log, "set:generating")
          /\ run.pc \in {"selKey", "gv_start"} =>
                /\ Truthy(run.analysisPrompt)
                /\ Truthy(run.cleanedFrameBase64)
          /\ run.pc = "gv_start" =>
                /\ run.veoReq.image = run.cleanedFrameBase64
                /\ run.veoReq.prompt = Append(run.analysisPrompt, VeoQualifier)

C2_Witness ==
    \E r \in Runs :
       /\ runs[r].pc = "gv_start"
       /\ Has(runs[r].log, "set:generating")
       /\ runs[r].analysisPrompt = DefaultAnalysis

\* ------------------------------------------------------------------ C3
Checks(log) == Count(log, "getVideosOperation")
Timers(log) == Count(log, "setTimeout")
HandleEvents == {"handle:done", "handle:pending"}
LastHandle(log) ==
    LET at == {i \in 1..Len(log) : log[i] \in HandleEvents}
    IN  IF at = {} THEN "none"
        ELSE log[CHOOSE i \in at : \A j \in at : j <= i]

\* C3: the loop issues one status check per elapsed 5 s timer, issues
\* neither a timer nor a check once a fetched handle (the first or a later
\* one) reports done, and code after the loop is reached only with the most
\* recently fetched handle reporting done.
C3_PollLoop ==
    \A r \in Runs :
       LET run == runs[r]
           log == run.log
       IN  /\ Checks(log) = Timers(log) - (IF run.pc = "gv_sleep" THEN 1 ELSE 0)
           /\ \A i, j \in 1..Len(log) :
                 i < j /\ log[i] = "handle:done" =>
                     log[j] \notin {"getVideosOperation", "setTimeout"}
           /\ Has(log, "afterLoop") => LastHandle(log) = "handle:done"
           /\ run.pc \in {"gv_sleep", "gv_poll"} => LastHandle(log) = "handle:pending"

C3_Witness ==
    \E r \in Runs :
       /\ runs[r].pc = "done"
       /\ Has(runs[r].log, "afterLoop")
       /\ Checks(runs[r].log) = MaxPolls

\* ------------------------------------------------------------------ C4
Selections(log) == Count(log, "openSelectKey") + Count(log, "openSelectKey:catch")

\* the run ended because a remote operation reported "entity not found"
\* while window.aistudio is available
EndedOnNotFound(run) ==
    /\ run.pc = "done"
    /\ aistudio
    /\ run.failure \in {"reject", "operror"}
    /\ Includes(run.rejected, EntityNotFound)

\* C4 as stated: whichever remote operation fails with "entity not found",
\* openSelectKey is invoked exactly once during the run and the run ends
\* failed with the credential-expired message.
C4_AnyStage ==
    \A r \in Runs :
       EndedOnNotFound(runs[r]) =>
          /\ Selections(runs[r].log) = 1
          /\ processingState.status = "error"
          /\ processingState.error = MsgKeyExpired

\* C4 as amended: only a failure inside generateCleanVideo's try block takes
\* the credential path: its catch block invokes openSelectKey exactly once,
\* nothing is retried, and the run ends failed with the credential-expired
\* message, which is not the remote message.  The same failure of the
\* describe or clean-frame stage triggers no re-selection and is propagated
\* as it is.  getAiClient may invoke openSelectKey besides.
C4_GenerateStageOnly ==
    \A r \in Runs :
       LET run == runs[r] IN
       EndedOnNotFound(run) =>
          /\ run.outcome = "error"
          /\ processingState.status = "error"
          /\ Count(run.log, "generateVideos") <= 1
          /\ IF Has(run.log, "generateVideos")
             THEN /\ Count(run.log, "openSelectKey:catch") = 1
                  /\ run.log[Len(run.log) - 1] = "openSelectKey:catch"
                  /\ processingState.error = MsgKeyExpired
                  /\ MsgKeyExpired # run.rejected
             ELSE /\ Count(run.log, "openSelectKey:catch") = 0
                  /\ processingState.error = run.rejected

C4_Witness ==
    \E r \in Runs :
       /\ EndedOnNotFound(runs[r])
       /\ Has(runs[r].log, "getVideosOperation")
       /\ runs[r].failure = "reject"
       /\ Selections(runs[r].log) = 2

\* ------------------------------------------------------------------ C5
RECURSIVE Dedup(_)
Dedup(seq) ==
    IF Len(seq) <= 1 THEN seq
    ELSE IF seq[1] = seq[2] THEN Dedup(Tail(seq))
    ELSE <<seq[1]>> \o Dedup(Tail(seq))

StatusesSeen(run) == Dedup([i \in 1..Len(run.seen) |-> run.seen[i].status])

\* C5: a run in which nothing failed, and during which neither the user nor
\* another run touched the shared state, shows idle, analyzing,
\* cleaning_frame, generating, completed in this order; the progress never
\* decreases over its updates, the callback's included; the result URL is
\* set in the state it ends in.
C5_HappyPath ==
    \A r \in Runs :
       LET run == runs[r] IN
       run.pc = "done" /\ run.failure = "" /\ ~run.disturbed =>
          /\ run.outcome = "completed"
          /\ StatusesSeen(run) =
                <<"idle", "analyzing", "cleaning_frame", "generating", "completed">>
          /\ \A i \in 1..(Len(run.seen) - 1) :
                run.seen[i].progress <= run.seen[i+1].progress
          /\ run.seen[Len(run.seen)].result
          /\ processingState.status = "completed"
          /\ resultVideoUrl # NullUrl

C5_Witness ==
    \E r \in Runs :
       /\ runs[r].pc = "done" /\ runs[r].failure = "" /\ ~runs[r].disturbed
       /\ Checks(runs[r].log) >= 1
       /\ Len(runs[r].seen) >= 8

\* ------------------------------------------------------------------ C6
StageOf(call) ==
    CASE call = "describe" -> 1
      [] call \in {"editImage", "describeFrame", "generateImages"} -> 2
      [] call \in {"generateVideos", "getVideosOperation"} -> 3

\* the run ended because a remote call rejected, the credential path apart
EndedOnRejection(run) ==
    /\ run.pc = "done"
    /\ run.failure = "reject"
    /\ ~(Has(run.log, "generateVideos") /\ IsKeyError(run.rejected))

\* nothing is retried and no call follows the rejected one
NoCallAfterRejection(log) ==
    /\ \A c \in RemoteCalls \ {"getVideosOperation"} : Count(log, c) <= 1
    /\ Count(log, "reject") = 1
    /\ \A j \in 1..Len(log) :
          j > First(log, "reject") => log[j] \notin RemoteCalls
    /\ log[First(log, "reject") - 1] \in RemoteCalls
    /\ \A j \in 1..Len(log) :
          log[j] \in RemoteCalls =>
             StageOf(log[j]) <= StageOf(log[First(log, "reject") - 1])

\* C6 as stated: the error text is the remote error's message, unmodified.
C6_Verbatim ==
    \A r \in Runs :
       EndedOnRejection(runs[r]) =>
          /\ NoCallAfterRejection(runs[r].log)
          /\ processingState.status = "error"
          /\ processingState.error = runs[r].rejected

\* C6 as amended: the error text is the remote error's message when that
\* message is not empty, and "Unknown error occurred" when it is.
C6_VerbatimUnlessEmpty ==
    \A r \in Runs :
       EndedOnRejection(runs[r]) =>
          /\ NoCallAfterRejection(runs[r].log)
          /\ runs[r].outcome = "error"
          /\ processingState.status = "error"
          /\ processingState.error =
                IF runs[r].rejected = MsgEmpty THEN MsgUnknown ELSE runs[r].rejected

C6_Witness ==
    \E r \in Runs :
       /\ EndedOnRejection(runs[r])
       /\ runs[r].rejected = MsgNotFound
       /\ runs[r].log[First(runs[r].log, "reject") - 1] = "describeFrame"

\* ------------------------------------------------------------------ C10
Started(r) == runs[r].pc # "unstarted"
Ended(r) == runs[r].pc \in {"done", "retired"}

C11_FailedIsTerminal ==
    [][/\ \A r \in Runs :
             LET log == runs'[r].log IN
             Has(log, "set:error") =>
                /\ Count(log, "set:error") = 1
                /\ log[Len(log)] = "set:error"
       /\ \A r \in Runs :
             runs[r].pc = "done" => runs'[r] \in {runs[r], Retired}
       /\ processingState.status = "error" /\ processingState'.status # "error" =>
             /\ processingState' = IdleState
             /\ \A r \in Runs : ~Acted(r)]_vars

\* ------------------------------------------------------------------ C12
\* the run left the polling loop and has ended
EndedAfterLoop(run) == run.pc = "done" /\ Has(run.log, "afterLoop")

\* C12 as stated: with a done handle, generateCleanVideo fails with the
\* message of the handle's error object if there is one, else with the
\* distinct "no result" error if there is no URL, and returns a result (the
\* URL followed by the key) only when a URL is present.
C12_HandleError ==
    \A r \in Runs :
       LET run == runs[r]
           operation == run.operation
       IN  EndedAfterLoop(run) =>
              /\ operation.done
              /\ IF operation.hasError
                 THEN run.outcome = "error" /\ run.thrown = operation.error
                 ELSE IF ~Truthy(operation.uri)
                 THEN /\ run.outcome = "error" /\ run.thrown = MsgNoUri
                      /\ MsgNoUri \notin RemoteErrors \cup {MsgGenFailed, MsgKeyExpired}
                 ELSE /\ run.outcome = "completed"
                      /\ resultVideoUrl = operation.uri \o <<"&key=">> \o KeyText

\* C12 as amended: the message of the error object is replaced by "Video
\* generation failed" when it is empty, and by the credential-expired message
\* when it contains "entity not found" and window.aistudio is available.
C12_HandleErrorOrFallback ==
    \A r \in Runs :
       LET run == runs[r]
           operation == run.operation
       IN  EndedAfterLoop(run) =>
              /\ operation.done
              /\ processingState.status = run.outcome
              /\ IF operation.hasError
                 THEN /\ run.outcome = "error"
                      /\ run.thrown =
                            IF operation.error = MsgEmpty THEN MsgGenFailed
                            ELSE IF Includes(operation.error, EntityNotFound) /\ aistudio
                                 THEN MsgKeyExpired
                                 ELSE operation.error
                      /\ processingState.error = run.thrown
                 ELSE IF ~Truthy(operation.uri)
                 THEN /\ run.outcome = "error" /\ run.thrown = MsgNoUri
                      /\ processingState.error = MsgNoUri
                      /\ MsgNoUri \notin RemoteErrors \cup {MsgGenFailed, MsgKeyExpired}
                 ELSE /\ run.outcome = "completed"
                      /\ resultVideoUrl = operation.uri \o <<"&key=">> \o KeyText

C12_Witness ==
    \E r \in Runs :
       /\ EndedAfterLoop(runs[r])
       /\ runs[r].operation = OpDoneError(MsgEmpty)
       /\ runs[r].thrown = MsgGenFailed
       /\ Checks(runs[r].log) >= 1

\* ------------------------------------------------------------------ C13
\* the run ended because captureFirstFrame gave it nothing
EndedOnCapture(run) == run.pc = "done" /\ run.failure = "capture"

NoRemoteCall(log) == \A i \in 1..Len(log) : log[i] \notin RemoteCalls

\* the run fails, with status error, before any remote operation
FailsBeforeRemote(run) ==
    /\ run.outcome = "error"
    /\ run.thrown = MsgNoFrame
    /\ processingState.status = "error"
    /\ processingState.error = MsgNoFrame
    /\ NoRemoteCall(run.log)

\* C13 as stated: without a video element, without a drawing surface, or
\* with zero decoded dimensions, captureFirstFrame returns null, and the run
\* fails with status error before any remote operation is issued.
C13_NullFrame ==
    /\ \A surface \in Surfaces :
          videoData = NullVideo \/ surface \in {"noctx", "nodims"} =>
             captureFirstFrame(surface, elLoaded) = NullFrame
    /\ \A r \in Runs :
          EndedOnCapture(runs[r]) =>
             /\ runs[r].firstFrameBase64 = NullFrame
             /\ FailsBeforeRemote(runs[r])

\* C13 as amended: captureFirstFrame returns null without a video element
\* or a drawing surface, and the empty string for a video with zero decoded
\* dimensions; in both cases the run fails with status error before any
\* remote operation is issued, and no run goes on with such a frame.
C13_NullOrEmptyFrame ==
    /\ \A surface \in Surfaces :
          LET frame == captureFirstFrame(surface, elLoaded) IN
          /\ videoData = NullVideo \/ surface = "noctx" => frame = NullFrame
          /\ videoData # NullVideo /\ surface = "nodims" => frame = Frame(NoText)
          /\ videoData # NullVideo /\ surface = "ok" /\ elLoaded[videoData.id] =>
                ~Falsy(frame)
    /\ \A r \in Runs :
          /\ EndedOnCapture(runs[r]) =>
                /\ runs[r].firstFrameBase64 \in {NullFrame, Frame(NoText)}
                /\ FailsBeforeRemote(runs[r])
          /\ ~NoRemoteCall(runs[r].log) => runs[r].failure # "capture"
          /\ runs[r].pc \in {"selKey", "an_call", "cf_edit"} =>
                ~Falsy(runs[r].firstFrameBase64)

C13_Witness ==
    \E r \in Runs :
       /\ EndedOnCapture(runs[r])
       /\ runs[r].firstFrameBase64 = Frame(NoText)
       /\ videoData # NullVideo /\ ~Stale(r) /\ elLoaded[videoData.id]

\* ------------------------------------------------------------------ C14
VideoSuffixes == {".mp4", ".MP4", ".webm", ".WEBM", ".mov", ".MOV"}
EndsInVideoSuffix(link) == Len(link) > 0 /\ link[Len(link)] \in VideoSuffixes

IsLinkRecord(vd) == vd # NullVideo /\ ~vd.file

\* C14: for every pasted link that does not end in .mp4, .webm or .mov (in
\* either case) handleLinkSubmit opens the warning and does not call
\* onVideoSelected; for every link that does, it hands over a record whose
\* url is the link and which has no binary payload.  So a warning leaves
\* the Uploader without a record, and every loaded link record has a
\* recognized suffix.
C14_LinkFilter ==
    /\ \A linkInput \in Links :
          LET out == LinkSubmit(linkInput, nextVideo) IN
          IF EndsInVideoSuffix(linkInput)
          THEN /\ out.alert = NoText
               /\ IsLinkRecord(out.data)
               /\ out.data.url = linkInput
               /\ "base64Data" \notin DOMAIN out.data
          ELSE /\ out.alert = LinkWarning
               /\ out.data = NullVideo
    /\ alerted = LinkWarning => videoData = NullVideo
    /\ IsLinkRecord(videoData) =>
          /\ videoData.url \in Links
          /\ EndsInVideoSuffix(videoData.url)
          /\ "base64Data" \notin DOMAIN videoData

C14_Witness ==
    /\ alerted = LinkWarning
    /\ videoData = NullVideo
    /\ nextVideo = 2

\* ------------------------------------------------------------------ C15
CleanFrameCalls == {"editImage", "describeFrame", "generateImages"}
IsCleanFrameCall(ev) == ev \in CleanFrameCalls

\* the run ended inside the clean-frame stage
EndedInCleanFrame(run) ==
    /\ run.pc = "done"
    /\ Has(run.log, "set:cleaning_frame")
    /\ ~Has(run.log, "set:generating")

\* C15: the clean-frame stage issues exactly two remote operations, the
\* description request for the frame and then the text-to-image request,
\* whose prompt ends with the fixed qualifier; the stage fails only by the
\* failure of one of the two.
C15_TwoCalls ==
    \A r \in Runs :
       LET run == runs[r]
           log == run.log
       IN  /\ Has(log, "set:generating") =>
                SelectSeq(log, IsCleanFrameCall) = <<"describeFrame", "generateImages">>
           /\ \A i \in 1..Len(log) :
                 IsCleanFrameCall(log[i]) => log[i] \in {"describeFrame", "generateImages"}
           /\ run.pc = "cf_imagen" =>
                 run.imagenReq[Len(run.imagenReq)] = ImagenQualifier
           /\ EndedInCleanFrame(run) =>
                 /\ run.failure = "reject"
                 /\ log[First(log, "reject") - 1] \in {"describeFrame", "generateImages"}

\* ------------------------------------------------------------------ C16
\* the calls that fetch a handle: the start of the generation and the checks
FetchCalls == {"generateVideos", "getVideosOperation"}

\* the last fetch call before position i of the log (0: none)
FetchBefore(log, i) ==
    LET at == {j \in 1..(i-1) : log[j] \in FetchCalls}
    IN  IF at = {} THEN 0 ELSE CHOOSE j \in at : \A k \in at : k <= j

\* C16: before every status check the progress callback is invoked: at
\* least once between the start of the generation and the first check, at
\* least once between two consecutive checks, and each time before the
\* 5 s timer of that check is set.
C16_ProgressBeforePoll ==
    \A r \in Runs :
       LET log == runs[r].log IN
       \A i \in 1..Len(log) :
          log[i] = "getVideosOperation" =>
             /\ FetchBefore(log, i) > 0
             /\ \E k, t \in (FetchBefore(log, i) + 1)..(i - 1) :
                   /\ k < t
                   /\ log[k] = "onProgress"
                   /\ log[t] = "setTimeout"

C16_Witness ==
    \E r \in Runs :
       /\ Checks(runs[r].log) = MaxPolls
       /\ runs[r].pc = "gv_poll"
       /\ Count(runs[r].log, "onProgress") = 2 + MaxPolls

\* ------------------------------------------------------------------ C17
\* the media type of a payload: an uploaded video, or a PNG read from the canvas
MediaTypeOf(data) ==
    CASE data = NoText -> NoText
      [] data[1] = "VIDEO" -> <<"video/mp4">>
      [] data[1] = "PNG" -> <<"image/png">>

\* the run's describe request is in flight and its VideoRecord is still loaded
Describing(r) ==
    /\ runs[r].pc = "an_call"
    /\ videoData # NullVideo
    /\ runs[r].vid = videoData.id

\* C17: the describe request carries the uploaded payload with the upload's
\* media type when there is a payload, and else the captured frame with
\* image/png; the media type sent is the media type of the data sent.
C17_MediaType ==
    \A r \in Runs :
       Describing(r) =>
          LET req == runs[r].analyzeReq IN
          /\ IF Truthy(Base64Of(videoData))
             THEN /\ req.data = videoData.base64Data
                  /\ req.mimeType = videoData.mimeType
             ELSE /\ req.data = <<"PNG", ToString(videoData.id)>>
                  /\ req.mimeType = <<"image/png">>
          /\ req.mimeType = MediaTypeOf(req.data)

\* ------------------------------------------------------------------ C18
\* C18: in every reachable state the status record carries a numeric
\* progress between 0 and 100, the failed state included.
C18_ProgressInRange ==
    /\ "progress" \in DOMAIN processingState
    /\ processingState.progress \in 0..100

\* ------------------------------------------------------------------ C19
\* the step is Try Again pressed in the failed state
TryAgainStep ==
    /\ videoData # NullVideo
    /\ videoData' = videoData
    /\ processingState.status = "error"
    /\ processingState' = IdleState
    /\ \A r \in Runs : ~Acted(r)

\* C19: after Try Again the Start Restoration button is rendered again for
\* the loaded video: the status is idle and no result URL is set.
C19_RetryOffersStart ==
    [][TryAgainStep =>
          /\ videoData' # NullVideo
          /\ processingState'.status = "idle"
          /\ resultVideoUrl' = NullUrl]_vars

\* ------------------------------------------------------------------ C20
HasErrorText(ps) == "error" \in DOMAIN ps /\ Truthy(ps.error)

\* C20: the status record carries a non-empty error description exactly
\* when its status is error; no other status carries one left over from an
\* earlier failure, whichever run or user action wrote the record last.
C20_ErrorIffFailed ==
    /\ HasErrorText(processingState) <=> processingState.status = "error"
    /\ "error" \in DOMAIN processingState => processingState.status = "error"

\* the failed state after a progress callback of another run rewrote its
\* message
C20_Witness ==
    /\ processingState.status = "error"
    /\ processingState.message = "Rendering video frames..."
    /\ HasErrorText(processingState)

\* ------------------------------------------------------------------ C21
ProgressMessages ==
    {"Initializing generation model...",
     "Video generation started. This may take a moment...",
     "Rendering video frames..."}

\* a segment of run r whose only updates are progress callbacks: the key
\* dialog of generateCleanVideo returned, or a fetched handle is not done
CallbackStep(r) ==
    /\ Acted(r)
    /\ \/ runs[r].pc = "selKey" /\ runs'[r].pc = "gv_start"
       \/ runs'[r].pc = "gv_sleep"

\* the two records differ in the message at most
SameButMessage(ps, qs) ==
    /\ DOMAIN ps = DOMAIN qs
    /\ \A f \in DOMAIN ps \ {"message"} : ps[f] = qs[f]

\* C21: a progress-callback update changes the message of the status
\* record and nothing else: status, progress, error description and result
\* URL stay as they are, whatever state the update is applied to.
C21_OnlyMessage ==
    [][/\ \A msg \in ProgressMessages :
             /\ SameButMessage(processingState, WithMessage(processingState, msg))
             /\ WithMessage(processingState, msg).message = msg
       /\ \A r \in Runs :
             CallbackStep(r) =>
                /\ SameButMessage(processingState, processingState')
                /\ processingState'.message \in ProgressMessages
                /\ Count(runs'[r].log, "onProgress") > Count(runs[r].log, "onProgress")
                /\ resultVideoUrl' = resultVideoUrl
                /\ videoData' = videoData]_vars

\* a callback of a run started for a replaced video was applied to the idle
\* state of the newly selected one
C21_Witness ==
    /\ processingState.status = "idle"
    /\ processingState.message = "Rendering video frames..."
    /\ processingState.progress = 0

\* ------------------------------------------------------------------ C22
\* the step hands a VideoRecord to handleVideoSelected
SelectStep == videoData = NullVideo /\ videoData' # NullVideo

\* the step is Change Video
ChangeStep == videoData # NullVideo /\ videoData' = NullVideo

\* the step is Start Restoration stopped by one of its two early returns
BlockedStartStep == alerted' = KeyWarning

\* the step issues no call and starts no run: every run keeps its log,
\* or is a finished run being dropped
NoRunMoves ==
    \A r \in Runs :
       \/ runs'[r] = runs[r]
       \/ runs[r].pc = "done" /\ runs'[r] = Retired

\* C22: selecting a video sets the status to idle with an empty message,
\* progress 0 and no error, and clears the result URL, from any state;
\* Change Video clears the VideoRecord and leaves status and result URL as
\* they are; Start Restoration without a credential source (or a preview
\* URL) changes nothing and issues no remote call.
C22_FrameEffects ==
    [][/\ SelectStep =>
             /\ processingState' = [status |-> "idle", message |-> "", progress |-> 0]
             /\ resultVideoUrl' = NullUrl
             /\ \A r \in Runs : ~Acted(r)
       /\ ChangeStep =>
             /\ processingState' = processingState
             /\ resultVideoUrl' = resultVideoUrl
             /\ \A r \in Runs : ~Acted(r)
       /\ BlockedStartStep =>
             /\ NoKeySource
             /\ UNCHANGED <<videoData, processingState, resultVideoUrl,
                            elLoaded, elHandler, nextVideo, nextRun>>
             /\ NoRunMoves
       /\ NoKeySource \/ videoData = NullVideo => nextRun' = nextRun]_vars

\* Start Restoration was stopped for a video selected after a Change Video
C22_Witness ==
    /\ alerted = KeyWarning
    /\ videoData # NullVideo
    /\ videoData.id = MaxVideos

====
